---- MODULE Spec2Model ----
\* scrapyard: the per-feed fetch/refresh subsystem.
\*
\* One feed (one label) is modelled: its store directory (meta.json,
\* cache.json, cache.xml), the scheduler worker spawned by Feeds::start_loop,
\* the Read API calls (the lazy and force fetch functions) made by concurrent
\* tasks, the per-label lock, and the wall clock.
\*
\* Option<T> is modelled as a sequence: None is <<>>, Some(v) is <<v>>.
EXTENDS Integers, Sequences, FiniteSets, TLC

\* ------------------------------------------------------------------ bounds

\* Largest max-length a feed of the single-run specification is configured with.
MaxLength == 2
\* Largest max-retries of the master config in the single-run specification.
MaxRetries == 2
\* Longest continuation chain the extractor offers in one attempt.
MaxHops == 2
\* Last second of the wall clock.
MaxTime == 4
\* Number of feeds (labels) of the process that use the lock registry.
MaxLabels == 4
\* Width of the machine word the quota is computed in, scaled down: the product
\* of the quota formula wraps at 2^WordBits.
WordBits == 3
\* Largest configuration value and clock value of the quota specification.
MaxQuota == 4
\* Longest sequence of extractor outcomes a pipeline run is evaluated against.
ScriptLen == 3
\* Extractor subprocesses counted as running at once.
MaxExtractors == 2

\* ------------------------------------------------------------------ Option

None == <<>>

Some(v) == <<v>>

IsSome(o) == o # None

\* Ordering of Option<u64>: None is smaller than every Some, Some compare by value.
OptionLess(a, b) ==
    IF a = None THEN b # None
    ELSE IF b = None THEN FALSE
    ELSE a[1] < b[1]

Min(a, b) == IF a < b THEN a ELSE b

Max(a, b) == IF a > b THEN a ELSE b

\* ------------------------------------------------------------------ items

\* PseudoItem, reduced to the fields the pipeline reads or writes.
PseudoItem(title, pub_date, timestamp, content) ==
    [title |-> title, pub_date |-> pub_date, timestamp |-> timestamp, content |-> content]

\* DateTime::parse_from_rfc2822(pub_date).timestamp(): Ok(seconds) as Some, Err as None.
ParseRfc2822(s) ==
    CASE s = "Thu, 01 Jan 1970 00:00:02 +0000" -> Some(2)
      [] s = "Thu, 01 Jan 1970 00:00:03 +0000" -> Some(3)
      [] OTHER -> None

\* The closure of items.iter_mut().for_each: derive a missing timestamp from pub_date.
DeriveTimestamp(item) ==
    IF IsSome(item.timestamp) THEN item
    ELSE IF item.pub_date # None /\ ParseRfc2822(item.pub_date[1]) # None
         THEN [item EXCEPT !.timestamp = ParseRfc2822(item.pub_date[1])]
         ELSE item

\* PseudoItem, reduced to the fields its equality reads (title, link) and one it
\* does not (content).
ItemKey(title, link, content) == [title |-> title, link |-> link, content |-> content]

\* The values of an Option<String> field: absent, the empty string, two strings.
OptionStrings == {None, Some(""), Some("x"), Some("y")}

ItemKeys ==
    { ItemKey(title, link, content) :
        title \in OptionStrings, link \in OptionStrings, content \in {None, Some("c")} }

ItemEqBoth(a, b) ==
    (IsSome(a.link) /\ a.link = b.link) /\ (IsSome(a.title) /\ a.title = b.title)

\* impl PartialEq for PseudoItem: eq(&self, other)
ItemEq(a, b) ==
    (IsSome(a.link) /\ a.link = b.link) \/ (IsSome(a.title) /\ a.title = b.title)

MapSeq(Op(_), s) == [k \in 1..Len(s) |-> Op(s[k])]

\* |item| PseudoItem { content: None, ..item }
ClearContent(item) == [item EXCEPT !.content = None]

\* From<PseudoItem> for rss::Item: the rendered item has no timestamp field.
ToRssItem(item) == [title |-> item.title, pub_date |-> item.pub_date, content |-> item.content]

\* A JSON document, as far as serde distinguishes documents: an array of
\* elements, an object with fields, or a string.
JsonArray(elems) == [kind |-> "array", elems |-> elems, fields |-> <<>>]

JsonObject(fields) == [kind |-> "object", elems |-> <<>>, fields |-> fields]

\* Serialize for PseudoItem: an object with the item's fields.
SerializeItem(item) == JsonObject(item)

\* Serialize for PseudoItemCache, a newtype of Vec<PseudoItem>: the array of the
\* items. cache.json is modelled by the sequence of the objects' fields, and
\* this is the document the file holds.
SerializeCache(items) == JsonArray(MapSeq(SerializeItem, items))

\* Deserialize for PseudoItem: an object whose fields have the declared types
\* (timestamp is an Option<u64>), Err (None) otherwise.
DeserializeItem(doc) ==
    IF doc.kind # "object" THEN None
    ELSE IF doc.fields.timestamp # None /\ doc.fields.timestamp[1] < 0 THEN None
    ELSE Some(doc.fields)

\* Deserialize for PseudoItemCache: an array whose elements all deserialize.
DeserializeCache(doc) ==
    IF doc.kind # "array" THEN None
    ELSE IF \E k \in 1..Len(doc.elems) : DeserializeItem(doc.elems[k]) = None THEN None
    ELSE Some([k \in 1..Len(doc.elems) |-> DeserializeItem(doc.elems[k])[1]])

\* Number of fields of PseudoChannel.
ChannelFields == 20

\* Deserialize for PseudoChannel (derived, a struct): from an object the fields
\* by name, title, link and description being required; from an array
\* the fields by position, all of them required, the first being the title.
\* Ok(items of the channel) as Some, Err as None.
DeserializeChannel(doc) ==
    IF doc.kind = "object"
    THEN IF {"title", "link", "description"} \subseteq DOMAIN doc.fields
         THEN Some(IF "items" \in DOMAIN doc.fields THEN doc.fields.items ELSE <<>>)
         ELSE None
    ELSE IF doc.kind = "array"
    THEN IF Len(doc.elems) < ChannelFields THEN None
         ELSE IF doc.elems[1].kind # "string" THEN None
         ELSE Some(doc.elems[ChannelFields].elems)
    ELSE None

SortCmpLessSwapped(item, other) == OptionLess(item.timestamp, other.timestamp)

\* The comparator of items.sort_by: compare(item, other) is Less.
SortCmpLess(item, other) == OptionLess(other.timestamp, item.timestamp)

Front(s) == SubSeq(s, 1, Len(s) - 1)

Last(s) == s[Len(s)]

\* slice::sort_by on a short slice: stable insertion sort; the tail element is
\* shifted left past every element it is Less than.
RECURSIVE InsertTail(_, _)
InsertTail(s, x) ==
    IF s = <<>> THEN <<x>>
    ELSE IF SortCmpLess(x, Last(s)) THEN Append(InsertTail(Front(s), x), Last(s))
    ELSE Append(s, x)

RECURSIVE SortBy(_)
SortBy(s) == IF s = <<>> THEN <<>> ELSE InsertTail(SortBy(Front(s)), Last(s))

DrainOffByOne(items, max_length) ==
    IF Len(items) > max_length + 1 THEN SubSeq(items, 1, max_length + 1) ELSE items

\* items.drain(max_length..) when items.len() > max_length
Drain(items, max_length) ==
    IF Len(items) > max_length THEN SubSeq(items, 1, max_length) ELSE items

\* ------------------------------------------------------------------ configuration

\* FeedOption, reduced to the fields the scheduler and the pipeline read.
FeedOption(max_length, fetch_length, interval, idle_limit, sort, fetch) ==
    [max_length |-> max_length, fetch_length |-> fetch_length, interval |-> interval,
     idle_limit |-> idle_limit, sort |-> sort, fetch |-> fetch]

\* MasterConfig, reduced to max-retries.
MasterConfig(max_retries) == [max_retries |-> max_retries]

\* FetchedMeta
FetchedMeta(last_fetch, last_requested) ==
    [last_fetch |-> last_fetch, last_requested |-> last_requested]

\* FetchedMeta::default(): last-fetch 0, last-requested "now".
DefaultMeta(t) == FetchedMeta(0, t)

\* FetchedMeta::load_json(..).await.unwrap_or_default()
LoadMetaOrDefault(file, t) == IF file = None THEN DefaultMeta(t) ELSE file[1]

\* FeedOption::outdated
Outdated(f, meta, t) == meta.last_fetch + f.interval < t

TimeTilOutdatedAtEquality(f, meta, t) ==
    IF meta.last_fetch + f.interval > t THEN Some(meta.last_fetch + f.interval - t) ELSE None

\* FeedOption::time_til_outdated: u64::checked_sub, None only when the difference is negative.
TimeTilOutdated(f, meta, t) ==
    IF meta.last_fetch + f.interval >= t THEN Some(meta.last_fetch + f.interval - t) ELSE None

IdleSinceFetch(f, meta, t) == meta.last_fetch + f.idle_limit < t

\* FeedOption::idle
Idle(f, meta, t) == meta.last_requested + f.idle_limit < t

\* Multiplication of two machine words: the product wraps at 2^WordBits.
WrappingMul(a, b) == (a * b) % (2 ^ WordBits)

\* The effective quota computed at the head of fetch_items_return / fetch_items_noreturn.
FetchLength(f, meta, t) ==
    Min(f.max_length,
        Max(WrappingMul((t - meta.last_fetch + 1) \div f.interval, f.fetch_length),
            f.fetch_length))

\* fetch_length.checked_sub(items.len()).unwrap_or_default()
LengthLeft(fetch_length, items) ==
    IF fetch_length >= Len(items) THEN fetch_length - Len(items) ELSE 0

MergeItemsCacheFirst(f, items, existing) ==
    LET derived == MapSeq(DeriveTimestamp, items)
        merged == existing \o derived
        sorted == IF f.sort THEN SortBy(merged) ELSE merged
    IN  Drain(sorted, f.max_length)

\* The tail of fetch_items_return / fetch_items_noreturn: derive timestamps of the
\* fresh items, append the cache, sort if configured, trim to max_length.
MergeItems(f, items, existing) ==
    LET derived == MapSeq(DeriveTimestamp, items)
        merged == derived \o existing
        sorted == IF f.sort THEN SortBy(merged) ELSE merged
    IN  Drain(sorted, f.max_length)

CapReachedStrict(f, items) == Len(items) > f.max_length

\* The cap test of fetch_items_recurse after items.extend(res.items).
CapReached(f, items) == Len(items) >= f.max_length

\* ------------------------------------------------------------------ state

\* The scheduler worker of the feed (one task per configured feed) and the tasks
\* that call the Read API.
Workers == {"w"}

Readers == {"r1", "r2"}

Tasks == Workers \cup Readers

VARIABLES
    now,        \* wall clock, seconds (chrono::Utc::now().timestamp())
    feed,       \* the FeedOption of the label
    master,     \* MASTER
    meta_json,  \* store/<label>/meta.json: Option<FetchedMeta>, None when missing
    cache_json, \* store/<label>/cache.json: Option<Vec<PseudoItem>>, None when missing
    cache_xml,  \* store/<label>/cache.xml: Option<rendered items>, None when missing
    lock,       \* LOCKS[label]: None when free, Some(task) when held
    task,       \* per task: position and locals
    lastRead,   \* Option<time>: latest last_requested stamp of a Read API call that returned Ok
    cache_salvaged, \* store/<label>/cache-<timestamp>.json: the set of their contents
    locks,      \* LOCKS: the hash map of the registry (entries, capacity, the label's entry)
    world,      \* the extractor behaviour and the disk fault a whole-run evaluation is made against
    extractors  \* the number of extractor subprocesses of the label that are still running

vars == <<now, feed, master, meta_json, cache_json, cache_xml, lock, task, lastRead,
          cache_salvaged, locks, world, extractors>>

\* Locals of a task. meta, existing (json.0), items, url, i, fetch_length are the
\* locals of the driver and of the pipeline; res is the continuation of the last
\* ItemizerRes; attempts (calls at the origin), hops (calls in the current
\* attempt), spawned (extractor subprocesses), followed (continuations followed),
\* fresh (the items merged) and ok (the last attempt returned Ok) record what the
\* current pipeline run has done. form is the form of the value a Read API call
\* returns (the channel object, or the raw string of a cache file). ret is the
\* value the task's last call returned (for the worker: the JoinHandle result of
\* the supervised block that has just ended). A task that returns drops its locals.
Locals(pc) ==
    [pc |-> pc, kind |-> "none", meta |-> FetchedMeta(0, 0), existing |-> <<>>,
     items |-> <<>>, url |-> "origin", i |-> 0, fetch_length |-> 0,
     res |-> None, wake |-> 0,
     attempts |-> 0, hops |-> 0, spawned |-> 0, followed |-> 0, fresh |-> <<>>,
     ok |-> FALSE, form |-> "none", ret |-> None]

\* Result values: Ok(value) of a given form, Err(e).
Ok(form, body) == [ok |-> TRUE, form |-> form, body |-> body]

Err(e) == [ok |-> FALSE, form |-> e, body |-> <<>>]

\* The task returns v to its caller.
Return(v) == [Locals("idle") EXCEPT !.ret = Some(v)]

Set(t, r) == task' = [task EXCEPT ![t] = r]

\* A pipeline run of task t is in progress: fetch_items_return / fetch_items_noreturn
\* has been entered and has not returned.
PipelinePcs == {"recurse", "get", "text", "extract", "merge", "save_rss"}

InPipeline(t) == task[t].pc \in PipelinePcs

\* ------------------------------------------------------------------ pipeline

RetryLoopInclusive(r) ==
    IF r.i <= master.max_retries
    THEN [r EXCEPT !.pc = "recurse", !.url = "origin", !.attempts = @ + 1, !.hops = 0]
    ELSE [r EXCEPT !.pc = "merge"]

\* Head of the retry loop, for i in 0..max_retries: the next call of
\* fetch_items_recurse at the origin, or the end of the loop.
RetryLoop(r) ==
    IF r.i < master.max_retries
    THEN [r EXCEPT !.pc = "recurse", !.url = "origin", !.attempts = @ + 1, !.hops = 0]
    ELSE [r EXCEPT !.pc = "merge"]

\* The head of fetch_items_*: PseudoItemCache::load_json(cache.json) when the file
\* exists, the default (empty) cache when it is missing or does not deserialize.
\* new_path is only formatted into the message: no file is renamed or created.
LoadItemCache(file) ==
    IF file = None THEN <<>>
    ELSE IF DeserializeCache(SerializeCache(file[1])) = None THEN <<>>
    ELSE DeserializeCache(SerializeCache(file[1]))[1]

\* fetch_items_*(meta): load cache.json (empty when missing), compute the quota,
\* start the retry loop with an empty items buffer.
FetchItemsBegin(r, meta) ==
    RetryLoop([r EXCEPT
        !.existing = LoadItemCache(cache_json),
        !.items = <<>>,
        !.fetch_length = FetchLength(feed, meta, now),
        !.i = 0, !.attempts = 0, !.hops = 0, !.spawned = 0, !.followed = 0,
        !.fresh = <<>>, !.ok = FALSE, !.res = None])

AttemptErrKeepsItems(r) == RetryLoop([r EXCEPT !.i = @ + 1, !.ok = FALSE])

\* Err(e) arm of the retry loop, then items.clear() and the next i.
AttemptErr(r) == RetryLoop([r EXCEPT !.items = <<>>, !.i = @ + 1, !.ok = FALSE])

\* Ok(()) arm of the retry loop: break.
AttemptOk(r) == [r EXCEPT !.pc = "merge", !.ok = TRUE]

\* preexists of fetch_items_recurse: original (the cache with content cleared) followed
\* by a clone of the items collected so far.
Preexists(r) == MapSeq(ClearContent, r.existing) \o r.items

\* The ItemizerArg that fetch_items_recurse writes to args.json.
ItemizerArg(r) ==
    [url |-> r.url, preexists |-> Preexists(r),
     length_left |-> LengthLeft(r.fetch_length, r.items)]

\* ItemizerRes: the reply the extractor prints.
ItemizerRes(items, continuation) == [items |-> items, continuation |-> continuation]

\* What follows a parsed reply: extend items, cap test, continuation.
AfterReply(r, res) ==
    LET items == r.items \o res.items
        r1 == [r EXCEPT !.items = items, !.res = res.continuation]
    IN  IF CapReached(feed, items) THEN AttemptOk(r1)
        ELSE IF res.continuation # None
             THEN [r1 EXCEPT !.pc = "recurse", !.url = res.continuation[1],
                             !.followed = @ + 1]
             ELSE AttemptOk(r1)

\* One call of fetch_items_recurse: the GET fails or times out (when feed.fetch);
\* or the extractor is spawned and the wait times out (FetchFailed), its stdout
\* does not parse, or it replies with a reply of the set R.
Recurse(t, R) ==
    /\ task[t].pc = "recurse"
    /\ \/ /\ feed.fetch
          /\ Set(t, AttemptErr([task[t] EXCEPT !.hops = @ + 1]))
       \/ Set(t, AttemptErr([task[t] EXCEPT !.hops = @ + 1, !.spawned = @ + 1]))
       \/ \E res \in R :
            /\ res.continuation # None => task[t].hops + 1 < MaxHops
            /\ Set(t, AfterReply([task[t] EXCEPT !.hops = @ + 1, !.spawned = @ + 1], res))
    /\ UNCHANGED <<now, feed, master, meta_json, cache_json, cache_xml, lock, lastRead, cache_salvaged, locks, world, extractors>>

\* Merge, trim and json.save_json(cache.json).
MergeAndSaveJson(t) ==
    /\ task[t].pc = "merge"
    /\ LET merged == MergeItems(feed, task[t].items, task[t].existing)
       IN  /\ cache_json' = Some(merged)
           /\ Set(t, [task[t] EXCEPT !.pc = "save_rss", !.fresh = task[t].items,
                                     !.items = merged])
    /\ UNCHANGED <<now, feed, master, meta_json, cache_xml, lock, lastRead, cache_salvaged, locks, world, extractors>>

\* rss.save_rss(cache.xml), then the pipeline returns to its driver.
SaveRss(t) ==
    /\ task[t].pc = "save_rss"
    /\ cache_xml' = Some(MapSeq(ToRssItem, task[t].items))
    /\ Set(t, [task[t] EXCEPT !.pc = "post"])
    /\ UNCHANGED <<now, feed, master, meta_json, cache_json, lock, lastRead, cache_salvaged, locks, world, extractors>>

\* json.save_json(cache.json) fails with an IO error before anything is written:
\* the pipeline returns Err. A Read API call returns the error to its caller; the
\* scheduler worker prints it and goes on to the meta update.
SaveFails(t) ==
    /\ task[t].pc = "merge"
    /\ IF t \in Workers
       THEN Set(t, [task[t] EXCEPT !.pc = "post", !.ok = FALSE])
       ELSE Set(t, Return(Err("io")))
    /\ UNCHANGED <<now, feed, master, meta_json, cache_json, cache_xml, lock, lastRead, cache_salvaged, locks, world, extractors>>

\* popen(): one more extractor subprocess of the label runs.
Popen == extractors' = Min(extractors + 1, MaxExtractors)

\* popen.wait() returns: one extractor subprocess has exited.
Exited == extractors' = extractors - 1

\* An extractor whose attempt has already returned FetchFailed exits; nothing
\* awaits the blocking task it ran in.
DetachedExits ==
    /\ extractors > Cardinality({t \in Tasks : task[t].pc = "extract"})
    /\ Exited
    /\ UNCHANGED <<now, feed, master, meta_json, cache_json, cache_xml, lock, task, lastRead, cache_salvaged, locks, world>>

\* One call of fetch_items_recurse, in the steps at which it waits for the
\* outside world. GetSend: the call starts; with feed.fetch it awaits
\* reqwest::get(url), which resolves when the response headers have arrived,
\* otherwise it writes args.json and spawns the extractor.
GetSend(t) ==
    /\ task[t].pc = "recurse"
    /\ IF feed.fetch
       THEN Set(t, [task[t] EXCEPT !.pc = "get", !.hops = @ + 1])
       ELSE /\ Set(t, [task[t] EXCEPT !.pc = "extract", !.hops = @ + 1, !.spawned = @ + 1])
            /\ Popen
    /\ feed.fetch => UNCHANGED extractors
    /\ UNCHANGED <<now, feed, master, meta_json, cache_json, cache_xml, lock, lastRead, cache_salvaged, locks, world>>

\* The server answers with the response headers: reqwest::get(url).await is Ok,
\* and the select! over the body (text()) and the request_timeout sleep starts.
GetResponds(t) ==
    /\ task[t].pc = "get"
    /\ Set(t, [task[t] EXCEPT !.pc = "text"])
    /\ UNCHANGED <<now, feed, master, meta_json, cache_json, cache_xml, lock, lastRead, cache_salvaged, locks, world, extractors>>

\* The connection or the transfer fails: the ? returns the reqwest error.
GetErr(t) ==
    /\ task[t].pc \in {"get", "text"}
    /\ Set(t, AttemptErr(task[t]))
    /\ UNCHANGED <<now, feed, master, meta_json, cache_json, cache_xml, lock, lastRead, cache_salvaged, locks, world, extractors>>

\* The body arrives before the sleep elapses: args.json is written and the
\* extractor is spawned; the select! over its exit and the sleep starts.
TextArrives(t) ==
    /\ task[t].pc = "text"
    /\ Set(t, [task[t] EXCEPT !.pc = "extract", !.spawned = @ + 1])
    /\ Popen
    /\ UNCHANGED <<now, feed, master, meta_json, cache_json, cache_xml, lock, lastRead, cache_salvaged, locks, world>>

\* The sleep of the first select! elapses first: Err(Error::Timedout).
Timedout(t) ==
    /\ task[t].pc = "text"
    /\ Set(t, AttemptErr(task[t]))
    /\ UNCHANGED <<now, feed, master, meta_json, cache_json, cache_xml, lock, lastRead, cache_salvaged, locks, world, extractors>>

\* The extractor exits before the sleep elapses: its stdout does not parse, or
\* it is a reply of the set R.
ExtractExits(t, R) ==
    /\ task[t].pc = "extract"
    /\ \/ Set(t, AttemptErr(task[t]))
       \/ \E res \in R :
            /\ res.continuation # None => task[t].hops < MaxHops
            /\ Set(t, AfterReply(task[t], res))
    /\ Exited
    /\ UNCHANGED <<now, feed, master, meta_json, cache_json, cache_xml, lock, lastRead, cache_salvaged, locks, world>>

\* The counters of a run record at most MaxHops invocations.
Saturated(r) ==
    [r EXCEPT !.hops = Min(@, MaxHops - 1), !.spawned = Min(@, MaxHops),
              !.followed = Min(@, MaxHops)]

\* The extractor exits with a reply that has no items and a continuation,
\* however many hops the attempt has made.
ExtractContinues(t) ==
    /\ task[t].pc = "extract"
    /\ Set(t, Saturated(AfterReply(task[t], ItemizerRes(<<>>, Some("u3")))))
    /\ Exited
    /\ UNCHANGED <<now, feed, master, meta_json, cache_json, cache_xml, lock, lastRead, cache_salvaged, locks, world>>

\* The sleep of the second select! elapses first: Err(Error::FetchFailed). The
\* JoinHandle of the blocking task is dropped, which detaches it: the closure
\* stays in popen.wait() and the subprocess runs on.
FetchFailed(t) ==
    /\ task[t].pc = "extract"
    /\ Set(t, AttemptErr(task[t]))
    /\ UNCHANGED <<now, feed, master, meta_json, cache_json, cache_xml, lock, lastRead, cache_salvaged, locks, world, extractors>>

\* ------------------------------------------------------------------ Read API

\* Entry of a lazy or force call: load meta.json (an error when missing); a force
\* call, or a lazy call on an outdated feed, enters the pipeline.
Call(t, kind) ==
    /\ task[t].pc = "idle"
    /\ IF meta_json = None
       THEN Set(t, Return(Err("io")))
       ELSE IF kind = "force" \/ Outdated(feed, meta_json[1], now)
            THEN Set(t, FetchItemsBegin([Locals("idle") EXCEPT !.kind = kind], meta_json[1]))
            ELSE Set(t, [Locals("req_save") EXCEPT !.kind = kind, !.meta = meta_json[1]])
    /\ UNCHANGED <<now, feed, master, meta_json, cache_json, cache_xml, lock, lastRead, cache_salvaged, locks, world, extractors>>

Stamp(t) == Some(IF lastRead = None THEN t ELSE Max(lastRead[1], t))

\* The forms of the Read API functions: lazy_fetch / force_fetch return the
\* channel object, the _json and _rss functions the raw string of a cache file.
\* The functions of one kind differ in nothing but what they return, so the
\* form is fixed where it is first looked at: after the meta update.
Forms == {"object", "json", "rss"}

\* After the pipeline: meta.fetched(); meta.requested(); meta.save_json(); then
\* the object form returns the items the pipeline returned, the string forms go
\* on to load the cache file.
ReaderFetched(t, form) ==
    /\ t \in Readers
    /\ task[t].pc = "post"
    /\ meta_json' = Some(FetchedMeta(now, now))
    /\ IF form = "object"
       THEN /\ Set(t, Return(Ok("object", task[t].items)))
            /\ lastRead' = Stamp(now)
       ELSE /\ Set(t, [Locals("read_cache") EXCEPT !.kind = task[t].kind, !.form = form,
                                                    !.meta = FetchedMeta(now, now)])
            /\ lastRead' = lastRead
    /\ UNCHANGED <<now, feed, master, cache_json, cache_xml, lock, cache_salvaged, locks, world, extractors>>

\* The not-outdated path of a lazy call: meta.requested(); meta.save_json().
ReaderRequested(t, form) ==
    /\ task[t].pc = "req_save"
    /\ meta_json' = Some([task[t].meta EXCEPT !.last_requested = now])
    /\ Set(t, [task[t] EXCEPT !.pc = "read_cache", !.form = form,
                              !.meta.last_requested = now])
    /\ UNCHANGED <<now, feed, master, cache_json, cache_xml, lock, lastRead, cache_salvaged, locks, world, extractors>>

\* What the last statement of a Read API function evaluates to: the object form
\* of the lazy call is PseudoChannel::load_json(cache.json), the string forms are
\* PseudoChannel::load_string of cache.json or cache.xml.
LoadResult(form) ==
    CASE form = "object" ->
            IF cache_json = None THEN Err("io")
            ELSE IF DeserializeChannel(SerializeCache(cache_json[1])) = None
                 THEN Err("deserialize")
                 ELSE Ok("object", DeserializeChannel(SerializeCache(cache_json[1]))[1])
      [] form = "json" ->
            IF cache_json = None THEN Err("io") ELSE Ok("json", cache_json[1])
      [] form = "rss" ->
            IF cache_xml = None THEN Err("io") ELSE Ok("rss", cache_xml[1])

\* The last statement of a Read API function: load the cache file and return.
ReaderReadCache(t) ==
    /\ task[t].pc = "read_cache"
    /\ Set(t, Return(LoadResult(task[t].form)))
    /\ lastRead' = IF LoadResult(task[t].form).ok
                   THEN Stamp(task[t].meta.last_requested) ELSE lastRead
    /\ UNCHANGED <<now, feed, master, meta_json, cache_json, cache_xml, lock, cache_salvaged, locks, world, extractors>>

\* ------------------------------------------------------------------ scheduler

SchedLocals(pc) == [Locals(pc) EXCEPT !.kind = "sched"]

BlockEndsForGood(result) == [SchedLocals("dead") EXCEPT !.ret = Some(result)]

\* The supervised block has ended with the given JoinHandle result, which the
\* outer loop discards: it iterates, spawning the block again.
BlockEnds(result) == [SchedLocals("due_loop") EXCEPT !.ret = Some(result)]

\* LOCKS: init, the OnceLock holds a map; the map has len entries in a table of
\* capacity cap; has: the label has an entry; moved: the table has been
\* reallocated since the guard now held on the label's mutex was taken, so the
\* guard refers to the old table.
LockMap(init, len, cap, has, moved) ==
    [init |-> init, len |-> len, cap |-> cap, has |-> has, moved |-> moved]

\* Capacity of the table after it has grown (std HashMap: 4, 8, 16, .. buckets).
Grown(cap) == CASE cap = 0 -> 3 [] cap = 3 -> 7 [] OTHER -> 2 * cap

\* entry(key) on a vacant key reserves room for one more entry: a full table is
\* reallocated, which moves every mutex stored in it.
Resizes(m) == m.len = m.cap /\ m.len > 0

\* The map is there (set by this or by an earlier take_lock!), and
\* entry(key).or_insert(Mutex::default()) on a vacant key.
Insert(m) ==
    [m EXCEPT !.init = TRUE, !.len = @ + 1,
              !.cap = IF m.len = m.cap THEN Grown(m.cap) ELSE m.cap]

\* Drop of the MutexGuard: the mutex the guard refers to is released. When the
\* table has been reallocated under the guard, the guard dangles: the release
\* goes to freed memory, and the label's mutex in the table stays locked or not.
Released(m, l) == IF m.moved THEN {l, None} ELSE {None}

\* start_loop, before the loop: create the default meta.json when it is missing.
Boot(w) ==
    /\ task[w].pc = "boot"
    /\ meta_json' = IF meta_json = None THEN Some(DefaultMeta(now)) ELSE meta_json
    /\ Set(w, SchedLocals("due_loop"))
    /\ UNCHANGED <<now, feed, master, cache_json, cache_xml, lock, lastRead, cache_salvaged, locks, world, extractors>>

\* The sleep-until-due loop: load meta, sleep time_til_outdated seconds or leave.
DueLoop(w) ==
    /\ task[w].pc = "due_loop"
    /\ LET meta == LoadMetaOrDefault(meta_json, now)
           secs == TimeTilOutdated(feed, meta, now)
       IN  IF secs # None
           THEN Set(w, [SchedLocals("sleep_due") EXCEPT !.wake = now + secs[1]])
           ELSE Set(w, SchedLocals("idle_check"))
    /\ UNCHANGED <<now, feed, master, meta_json, cache_json, cache_xml, lock, lastRead, cache_salvaged, locks, world, extractors>>

\* tokio::time::sleep has elapsed: back to the head of the sleep-until-due loop
\* (after the idle sleep: return, and the outer loop spawns the block again).
Wake(w) ==
    /\ task[w].pc \in {"sleep_due", "sleep_idle"}
    /\ now >= task[w].wake
    /\ IF task[w].pc = "sleep_idle"
       THEN Set(w, BlockEnds(Ok("block", <<>>)))
       ELSE Set(w, SchedLocals("due_loop"))
    /\ UNCHANGED <<now, feed, master, meta_json, cache_json, cache_xml, lock, lastRead, cache_salvaged, locks, world, extractors>>

\* The idle check: load meta; when idle sleep interval seconds and return.
IdleCheck(w) ==
    /\ task[w].pc = "idle_check"
    /\ IF Idle(feed, LoadMetaOrDefault(meta_json, now), now)
       THEN Set(w, [task[w] EXCEPT !.pc = "sleep_idle", !.wake = now + feed.interval])
       ELSE Set(w, [task[w] EXCEPT !.pc = "lock"])
    /\ UNCHANGED <<now, feed, master, meta_json, cache_json, cache_xml, lock, lastRead, cache_salvaged, locks, world, extractors>>

\* take_lock!(LOCKS, label): get or insert the label's mutex, wait until it is
\* free and take it.
TakeLock(w) ==
    /\ task[w].pc = "lock"
    /\ lock = None
    /\ lock' = Some(w)
    /\ locks' = IF locks.has THEN locks ELSE [Insert(locks) EXCEPT !.has = TRUE]
    /\ Set(w, [task[w] EXCEPT !.pc = "locked"])
    /\ UNCHANGED <<now, feed, master, meta_json, cache_json, cache_xml, lastRead, cache_salvaged, world, extractors>>

\* take_lock! in the steps another thread of the runtime can come between.
\* LockCheck: $locks.0.get().is_none() is evaluated.
LockCheck(w) ==
    /\ task[w].pc = "lock"
    /\ Set(w, [task[w] EXCEPT !.pc = IF locks.init THEN "lock_entry" ELSE "lock_set"])
    /\ UNCHANGED <<lock, locks>>
    /\ UNCHANGED <<now, feed, master, meta_json, cache_json, cache_xml, lastRead, cache_salvaged, world, extractors>>

\* $locks.0.set(HashMap::default()).unwrap(): set is Err when the OnceLock has
\* been set in the meantime, and unwrap panics; the panic ends the block.
LockSet(w) ==
    /\ task[w].pc = "lock_set"
    /\ IF locks.init
       THEN /\ Set(w, BlockEnds(Err("panic")))
            /\ locks' = locks
       ELSE /\ Set(w, [task[w] EXCEPT !.pc = "lock_entry"])
            /\ locks' = [locks EXCEPT !.init = TRUE]
    /\ lock' = lock
    /\ UNCHANGED <<now, feed, master, meta_json, cache_json, cache_xml, lastRead, cache_salvaged, world, extractors>>

\* get_mut().unwrap().entry(key).or_insert(Mutex::default()): the label's mutex.
LockEntry(w) ==
    /\ task[w].pc = "lock_entry"
    /\ locks' = IF locks.has THEN locks ELSE [Insert(locks) EXCEPT !.has = TRUE]
    /\ Set(w, [task[w] EXCEPT !.pc = "lock_wait"])
    /\ lock' = lock
    /\ UNCHANGED <<now, feed, master, meta_json, cache_json, cache_xml, lastRead, cache_salvaged, world, extractors>>

\* .lock().await: wait until the mutex is free and take it.
LockAcquire(w) ==
    /\ task[w].pc = "lock_wait"
    /\ lock = None
    /\ lock' = Some(w)
    /\ Set(w, [task[w] EXCEPT !.pc = "locked"])
    /\ locks' = locks
    /\ UNCHANGED <<now, feed, master, meta_json, cache_json, cache_xml, lastRead, cache_salvaged, world, extractors>>

\* The first take_lock! of the worker of another feed: its label's mutex is
\* inserted. A reallocation of the table moves the mutex of this label; a guard
\* held on it is left referring to the old table.
PeerTakeLock ==
    /\ locks.len - (IF locks.has THEN 1 ELSE 0) < MaxLabels - 1
    /\ locks' = [Insert(locks) EXCEPT !.moved = @ \/ (Resizes(locks) /\ lock # None)]
    /\ UNCHANGED <<now, feed, master, meta_json, cache_json, cache_xml, lock, task, lastRead, cache_salvaged, world, extractors>>

\* Under the lock: load meta (default when missing) and enter fetch_items_noreturn.
WorkerLoadMeta(w) ==
    /\ task[w].pc = "locked"
    /\ LET meta == LoadMetaOrDefault(meta_json, now)
       IN  Set(w, FetchItemsBegin([task[w] EXCEPT !.meta = meta], meta))
    /\ UNCHANGED <<now, feed, master, meta_json, cache_json, cache_xml, lock, lastRead, cache_salvaged, locks, world, extractors>>

\* After the pipeline: meta.fetched(); meta.save_json(); the block ends and _lock drops.
WorkerFetched(w) ==
    /\ w \in Workers
    /\ task[w].pc = "post"
    /\ meta_json' = Some([task[w].meta EXCEPT !.last_fetch = now])
    /\ lock' \in Released(locks, lock)
    /\ locks' = [locks EXCEPT !.moved = FALSE]
    /\ Set(w, BlockEnds(Ok("block", <<>>)))
    /\ UNCHANGED <<now, feed, master, cache_json, cache_xml, lastRead, cache_salvaged, world, extractors>>

\* After the pipeline meta.save_json() fails: unwrap() panics. The block unwinds,
\* which drops _lock, and the JoinHandle yields the panic as an error.
WorkerPanic(w) ==
    /\ w \in Workers
    /\ task[w].pc = "post"
    /\ lock' \in Released(locks, lock)
    /\ locks' = [locks EXCEPT !.moved = FALSE]
    /\ Set(w, BlockEnds(Err("panic")))
    /\ UNCHANGED <<now, feed, master, meta_json, cache_json, cache_xml, lastRead, cache_salvaged, world, extractors>>

\* The wall clock advances by one second.
Tick ==
    /\ now < MaxTime
    /\ now' = now + 1
    /\ UNCHANGED <<feed, master, meta_json, cache_json, cache_xml, lock, task, lastRead, cache_salvaged, locks, world, extractors>>

\* ------------------------------------------------------------------ extractor replies

ItemA == PseudoItem("A", None, Some(2), Some("a"))

ItemB == PseudoItem("B", Some("Thu, 01 Jan 1970 00:00:02 +0000"), None, None)

ItemC == PseudoItem("C", Some("yesterday"), None, None)

ItemD == PseudoItem("D", Some("Thu, 01 Jan 1970 00:00:02 +0000"), Some(3), None)

\* An object of a cache.json that does not deserialize as a PseudoItem: its
\* timestamp is not a u64.
ItemBad == PseudoItem("X", None, Some(-1), None)

\* Replies of the extractor in the single-run specification.
RepliesRun ==
    { ItemizerRes(<<>>, None), ItemizerRes(<<>>, Some("u3")),
      ItemizerRes(<<ItemA>>, None), ItemizerRes(<<ItemA>>, Some("u2")),
      ItemizerRes(<<ItemB>>, None), ItemizerRes(<<ItemC>>, Some("u2")),
      ItemizerRes(<<ItemD>>, None), ItemizerRes(<<ItemB, ItemA>>, Some("u3")) }

\* Replies of the extractor in the concurrent specification.
Replies == { ItemizerRes(<<>>, None), ItemizerRes(<<ItemA>>, None) }

\* ------------------------------------------------------------------ the two entry points

\* What one invocation of the extractor comes to: an error of the attempt (the
\* GET or the extractor fails, times out, or prints what does not parse), or a
\* reply.
Outcome(ok, res) == [ok |-> ok, res |-> res]

Outcomes ==
    { Outcome(FALSE, ItemizerRes(<<>>, None)) } \cup
    { Outcome(TRUE, res) :
        res \in { ItemizerRes(<<>>, None), ItemizerRes(<<ItemA>>, Some("u2")),
                  ItemizerRes(<<ItemB>>, None),
                  ItemizerRes(<<ItemB, ItemA>>, Some("u3")) } }

\* The behaviours of the extractor: the outcomes of its successive invocations;
\* past the end of the script every invocation fails.
RECURSIVE SeqsUpTo(_, _)
SeqsUpTo(S, n) ==
    IF n = 0 THEN { <<>> }
    ELSE SeqsUpTo(S, n - 1) \cup
         { Append(q, x) : q \in { q \in SeqsUpTo(S, n - 1) : Len(q) = n - 1 }, x \in S }

Scripts == SeqsUpTo(Outcomes, ScriptLen)

\* The writes of the store that fail with an IO error.
Disks == {"ok", "json_fails", "rss_fails"}

\* fetch_items_recurse run to its return against a script: the result, the items
\* buffer, the rest of the script, and the ItemizerArg of every invocation made.
RECURSIVE FetchItemsRecurse(_, _, _, _, _, _, _)
FetchItemsRecurse(f, items, original, url, fetch_length, script, calls) ==
    LET preexists == original \o items
        arg == [url |-> url, preexists |-> preexists,
                length_left |-> LengthLeft(fetch_length, items)]
        made == Append(calls, arg)
    IN  IF script = <<>>
        THEN [ok |-> FALSE, items |-> items, script |-> <<>>, calls |-> made]
        ELSE IF ~Head(script).ok
        THEN [ok |-> FALSE, items |-> items, script |-> Tail(script), calls |-> made]
        ELSE LET res == Head(script).res
                 extended == items \o res.items
             IN  IF CapReached(f, extended)
                 THEN [ok |-> TRUE, items |-> extended, script |-> Tail(script), calls |-> made]
                 ELSE IF res.continuation # None
                 THEN FetchItemsRecurse(f, extended, original, res.continuation[1],
                                        fetch_length, Tail(script), made)
                 ELSE [ok |-> TRUE, items |-> extended, script |-> Tail(script), calls |-> made]

\* The retry loop of fetch_items_return from iteration i on.
RECURSIVE RetryReturn(_, _, _, _, _, _, _)
RetryReturn(f, max_retries, i, json, fetch_length, script, calls) ==
    IF i >= max_retries THEN [items |-> <<>>, calls |-> calls]
    ELSE LET a == FetchItemsRecurse(f, <<>>, MapSeq(ClearContent, json), "origin",
                                    fetch_length, script, calls)
         IN  IF a.ok THEN [items |-> a.items, calls |-> a.calls]
             ELSE RetryReturn(f, max_retries, i + 1, json, fetch_length, a.script, a.calls)

\* The retry loop of fetch_items_noreturn from iteration i on.
RECURSIVE RetryNoreturn(_, _, _, _, _, _, _)
RetryNoreturn(f, max_retries, i, json, fetch_length, script, calls) ==
    IF i >= max_retries THEN [items |-> <<>>, calls |-> calls]
    ELSE LET a == FetchItemsRecurse(f, <<>>, MapSeq(ClearContent, json), "origin",
                                    fetch_length, script, calls)
         IN  IF a.ok THEN [items |-> a.items, calls |-> a.calls]
             ELSE RetryNoreturn(f, max_retries, i + 1, json, fetch_length, a.script, a.calls)

\* What a run of an entry point has done: the content it wrote to cache.json and
\* to cache.xml (None: not written), the invocations it made, what it returned.
Ran(json, xml, calls, ret) == [json |-> json, xml |-> xml, calls |-> calls, ret |-> ret]

\* fetch_items_return(meta) at time t on a store whose cache.json is file.
FetchItemsReturn(f, max_retries, meta, t, file, script, disk) ==
    LET json == LoadItemCache(file)
        fetch_length == FetchLength(f, meta, t)
        a == RetryReturn(f, max_retries, 0, json, fetch_length, script, <<>>)
        derived == MapSeq(DeriveTimestamp, a.items)
        appended == derived \o json
        sorted == IF f.sort THEN SortBy(appended) ELSE appended
        items == Drain(sorted, f.max_length)
    IN  IF disk = "json_fails" THEN Ran(None, None, a.calls, Err("io"))
        ELSE IF disk = "rss_fails" THEN Ran(Some(items), None, a.calls, Err("io"))
        ELSE Ran(Some(items), Some(MapSeq(ToRssItem, items)), a.calls, Ok("items", items))

FetchItemsNoreturnCacheFirst(f, max_retries, meta, t, file, script, disk) ==
    LET json == LoadItemCache(file)
        a == RetryNoreturn(f, max_retries, 0, json, FetchLength(f, meta, t), script, <<>>)
        items == MergeItemsCacheFirst(f, a.items, json)
    IN  IF disk = "json_fails" THEN Ran(None, None, a.calls, Err("io"))
        ELSE IF disk = "rss_fails" THEN Ran(Some(items), None, a.calls, Err("io"))
        ELSE Ran(Some(items), Some(MapSeq(ToRssItem, items)), a.calls, Ok("unit", <<>>))

\* fetch_items_noreturn(meta) at time t on a store whose cache.json is file.
FetchItemsNoreturn(f, max_retries, meta, t, file, script, disk) ==
    LET json == LoadItemCache(file)
        fetch_length == FetchLength(f, meta, t)
        a == RetryNoreturn(f, max_retries, 0, json, fetch_length, script, <<>>)
        derived == MapSeq(DeriveTimestamp, a.items)
        appended == derived \o json
        sorted == IF f.sort THEN SortBy(appended) ELSE appended
        items == Drain(sorted, f.max_length)
    IN  IF disk = "json_fails" THEN Ran(None, None, a.calls, Err("io"))
        ELSE IF disk = "rss_fails" THEN Ran(Some(items), None, a.calls, Err("io"))
        ELSE Ran(Some(items), Some(MapSeq(ToRssItem, items)), a.calls, Ok("unit", <<>>))

\* The world of a whole-run evaluation: the script the extractor follows and
\* the disk fault.
World(script, disk) == [script |-> script, disk |-> disk]

\* Specifications that run the pipeline step by step choose the outcome of each
\* invocation at the step.
Unscripted == World(<<>>, "ok")

\* A run of an entry point, start to return, in one step of task t: the files
\* it wrote, and its result handed to the caller.
Applied(t, ran) ==
    /\ task[t].pc = "idle"
    /\ cache_json' = IF ran.json = None THEN cache_json ELSE ran.json
    /\ cache_xml' = IF ran.xml = None THEN cache_xml ELSE ran.xml
    /\ Set(t, [Return(ran.ret) EXCEPT !.spawned = Len(ran.calls)])
    /\ UNCHANGED <<now, feed, master, meta_json, lock, lastRead, cache_salvaged, locks, world, extractors>>

ApplyReturn(t) ==
    Applied(t, FetchItemsReturn(feed, master.max_retries, meta_json[1], now,
                                cache_json, world.script, world.disk))

ApplyNoreturn(t) ==
    Applied(t, FetchItemsNoreturn(feed, master.max_retries, meta_json[1], now,
                                  cache_json, world.script, world.disk))

\* A task evaluates items[i] == items[j] on the two items of the store.
Compare(t, i, j) ==
    /\ task[t].pc = "idle"
    /\ Set(t, Return(Ok("bool", ItemEq(cache_json[1][i], cache_json[1][j]))))
    /\ UNCHANGED <<now, feed, master, meta_json, cache_json, cache_xml, lock, lastRead, cache_salvaged, locks, world, extractors>>

\* ------------------------------------------------------------------ specifications

\* The store of a label nothing has touched yet, every task at its start.
InitStore ==
    /\ cache_xml = None
    /\ lock = None
    /\ task = [t \in Tasks |-> IF t \in Workers THEN Locals("boot") ELSE Locals("idle")]
    /\ lastRead = None
    /\ cache_salvaged = {}
    /\ locks = LockMap(FALSE, 0, 0, FALSE, FALSE)

Pipeline(t, R) ==
    \/ Recurse(t, R)
    \/ MergeAndSaveJson(t)
    \/ SaveRss(t)

ReadApi(t) ==
    \/ \E kind \in {"lazy", "force"} : Call(t, kind)
    \/ \E form \in Forms : ReaderFetched(t, form)
    \/ \E form \in Forms : ReaderRequested(t, form)
    \/ ReaderReadCache(t)

Scheduler(w) ==
    \/ Boot(w)
    \/ DueLoop(w)
    \/ Wake(w)
    \/ IdleCheck(w)
    \/ TakeLock(w)
    \/ WorkerLoadMeta(w)
    \/ WorkerFetched(w)

\* The auto-fetch loop of the feed together with one task calling the Read API,
\* under a running clock.
Init ==
    /\ InitStore
    /\ world = Unscripted
    /\ extractors = 0
    /\ now = 0
    /\ cache_json = None
    /\ feed = FeedOption(2, 1, 1, 2, TRUE, TRUE)
    /\ master = MasterConfig(1)
    /\ meta_json = None

Next ==
    \/ Tick
    \/ \E w \in Workers : Scheduler(w)
    \/ ReadApi("r1")
    \/ \E t \in Workers \cup {"r1"} : Pipeline(t, Replies)

Spec == Init /\ [][Next]_vars

\* Two tasks calling the Read API concurrently within one second, without the
\* auto-fetch loop, on a store whose meta.json exists.
InitCalls ==
    /\ InitStore
    /\ world = Unscripted
    /\ extractors = 0
    /\ now = 0
    /\ cache_json = None
    /\ feed = FeedOption(2, 1, 1, 2, TRUE, TRUE)
    /\ master = MasterConfig(1)
    /\ meta_json = Some(FetchedMeta(0, 0))

NextCalls ==
    \/ \E t \in Readers : ReadApi(t)
    \/ \E t \in Readers : Pipeline(t, Replies)

SpecCalls == InitCalls /\ [][NextCalls]_vars

\* One task running force_fetch again and again on a store whose meta.json exists
\* and whose cache.json is missing or does not deserialize, for every small
\* configuration and every extractor behaviour.
InitRun ==
    /\ InitStore
    /\ world = Unscripted
    /\ extractors = 0
    /\ now = 0
    /\ cache_json \in {None, Some(<<ItemBad>>)}
    /\ feed \in { FeedOption(ml, 1, 1, 2, sort, TRUE) :
                    ml \in 1..MaxLength, sort \in BOOLEAN }
    /\ master \in { MasterConfig(n) : n \in 0..MaxRetries }
    /\ meta_json = Some(FetchedMeta(0, 0))

NextRun ==
    \/ Call("r1", "force")
    \/ Pipeline("r1", RepliesRun)
    \/ ReaderFetched("r1", "object")

SpecRun == InitRun /\ [][NextRun]_vars

\* The auto-fetch loop of the feed among the workers of the other feeds of the
\* process, on a disk whose writes can fail: no Read API call is made, and the
\* feed is configured never to go idle within the time modelled.
InitLabels ==
    /\ InitStore
    /\ world = Unscripted
    /\ extractors = 0
    /\ now = 0
    /\ cache_json = None
    /\ feed = FeedOption(2, 1, 1, MaxTime, TRUE, TRUE)
    /\ master = MasterConfig(1)
    /\ meta_json = None

NextLabels ==
    \/ Tick
    \/ \E w \in Workers : Scheduler(w) \/ WorkerPanic(w)
    \/ \E w \in Workers : Pipeline(w, Replies) \/ SaveFails(w)
    \/ PeerTakeLock

SpecLabels == InitLabels /\ [][NextLabels]_vars

\* The quota of a pipeline run, for every small configuration, clock and
\* last_fetch: one task running force_fetch within one second.
InitQuota ==
    /\ InitStore
    /\ world = Unscripted
    /\ extractors = 0
    /\ cache_json = None
    /\ feed \in { FeedOption(ml, fl, iv, 2, TRUE, TRUE) :
                    ml \in 0..MaxQuota, fl \in 0..MaxQuota, iv \in 1..MaxQuota }
    /\ master = MasterConfig(1)
    /\ meta_json \in { Some(FetchedMeta(lf, 0)) : lf \in 0..MaxQuota }
    /\ now \in meta_json[1].last_fetch..MaxQuota

NextQuota ==
    \/ Call("r1", "force")
    \/ Pipeline("r1", Replies)
    \/ ReaderFetched("r1", "object")

SpecQuota == InitQuota /\ [][NextQuota]_vars

\* The auto-fetch loop against a server and an extractor that answer when they
\* like, or never. The runtime keeps running a task that can run and timers
\* elapse (weak fairness of the worker's own steps and of the clock); nothing
\* obliges the server to answer or the extractor to exit.
InitHang == InitLabels

Outside(t) ==
    \/ GetResponds(t)
    \/ GetErr(t)
    \/ TextArrives(t)
    \/ ExtractExits(t, Replies)

Runtime(t) ==
    \/ GetSend(t)
    \/ Timedout(t)
    \/ FetchFailed(t)
    \/ MergeAndSaveJson(t)
    \/ SaveRss(t)

NextHang ==
    \/ Tick
    \/ \E w \in Workers : Scheduler(w)
    \/ \E w \in Workers : Runtime(w)
    \/ \E w \in Workers : Outside(w)
    \/ DetachedExits

SpecHang ==
    /\ InitHang
    /\ [][NextHang]_vars
    /\ WF_vars(Tick)
    /\ \A w \in Workers : WF_vars(Scheduler(w) \/ Runtime(w))

\* The worker with split attempts and a retry budget of one or more attempts;
\* extractors may outlive the attempt that spawned them.
InitExtractors ==
    /\ InitStore
    /\ world = Unscripted
    /\ extractors = 0
    /\ now = 0
    /\ cache_json = None
    /\ feed \in { FeedOption(2, 1, 1, MaxTime, TRUE, fetch) : fetch \in BOOLEAN }
    /\ master \in { MasterConfig(n) : n \in 1..MaxRetries }
    /\ meta_json = None

SpecExtractors == InitExtractors /\ [][NextHang]_vars

\* The two entry points of the pipeline, each run start to return, for every
\* small configuration, cache and extractor behaviour, again and again on the
\* store the runs before have left: fetch_items_return by task r1 (force_fetch),
\* fetch_items_noreturn by task r2 (force_fetch_rss).
InitEntry ==
    /\ InitStore
    /\ world \in { World(script, disk) : script \in Scripts, disk \in Disks }
    /\ extractors = 0
    /\ now = 0
    /\ cache_json \in {None, Some(<<ItemBad>>), Some(<<ItemD>>)}
    /\ feed \in { FeedOption(ml, 1, 1, 2, sort, TRUE) :
                    ml \in 1..MaxLength, sort \in BOOLEAN }
    /\ master \in { MasterConfig(n) : n \in 0..MaxRetries }
    /\ meta_json = Some(FetchedMeta(0, 0))

NextEntry ==
    \/ ApplyReturn("r1")
    \/ ApplyNoreturn("r2")

SpecEntry == InitEntry /\ [][NextEntry]_vars

\* Item equality on every pair of items: task r1 evaluates a == b, task r2
\* evaluates b == a.
InitItems ==
    /\ InitStore
    /\ world = Unscripted
    /\ extractors = 0
    /\ now = 0
    /\ cache_json \in { Some(<<a, b>>) : a \in ItemKeys, b \in ItemKeys }
    /\ feed = FeedOption(2, 1, 1, 2, TRUE, TRUE)
    /\ master = MasterConfig(1)
    /\ meta_json = None

NextItems ==
    \/ Compare("r1", 1, 2)
    \/ Compare("r2", 2, 1)

SpecItems == InitItems /\ [][NextItems]_vars

\* The auto-fetch loop against a server that always answers and an extractor
\* that always exits (weak fairness of their answers as well), the extractor
\* being free to reply with a continuation at every hop.
Answers(t) ==
    \/ Outside(t)
    \/ ExtractContinues(t)

NextChain ==
    \/ NextHang
    \/ \E w \in Workers : ExtractContinues(w)

SpecChain ==
    /\ InitHang
    /\ [][NextChain]_vars
    /\ WF_vars(Tick)
    /\ \A w \in Workers : WF_vars(Scheduler(w) \/ Runtime(w))
    /\ \A w \in Workers : WF_vars(Answers(w))

\* The auto-fetch loop of the feed among the workers of the other feeds, all
\* tasks of one multi-threaded runtime: the worker's take_lock! in its steps, the
\* take_lock! of each other worker coming at any point between them.
NextRegistry ==
    \/ Tick
    \/ \E w \in Workers : Boot(w) \/ DueLoop(w) \/ Wake(w) \/ IdleCheck(w)
    \/ \E w \in Workers : LockCheck(w) \/ LockSet(w) \/ LockEntry(w) \/ LockAcquire(w)
    \/ \E w \in Workers : WorkerLoadMeta(w) \/ WorkerFetched(w)
    \/ \E w \in Workers : Pipeline(w, Replies)
    \/ PeerTakeLock

SpecRegistry == InitLabels /\ [][NextRegistry]_vars

\* ------------------------------------------------------------------ claims

Running == {t \in Tasks : InPipeline(t)}

ItemsOf(file) == IF file = None THEN <<>> ELSE file[1]

\* A timestamp as a number, an absent one below every present one.
TsKey(item) == IF item.timestamp = None THEN -1 ELSE item.timestamp[1]

\* Task t takes a step.
Steps(t) == task'[t] # task[t]

\* C1: at any moment at most one pipeline run is in progress for the label,
\* whichever drivers started the runs (two force_fetch calls included).
C1_OnePipelinePerLabel == Cardinality(Running) <= 1

\* C2: after any pipeline run the item list in cache.json has at most max_length
\* items.
C2_CacheWithinMaxLength ==
    cache_json # None => Len(cache_json[1]) <= feed.max_length

\* A run has merged more than max_length items and cache.json holds max_length.
C2_Trimmed ==
    \E t \in Tasks :
        /\ task[t].pc = "post"
        /\ Len(task[t].fresh) + Len(task[t].existing) > feed.max_length
        /\ cache_json # None
        /\ Len(cache_json[1]) = feed.max_length

\* C3: with sort = true, after any pipeline run adjacent items of cache.json are
\* in non-increasing timestamp order, an absent timestamp counting as the
\* smallest, so no item without a timestamp precedes an item with one.
C3_SortedDescending ==
    (feed.sort /\ cache_json # None) =>
        LET c == cache_json[1]
        IN  /\ \A k \in 1..(Len(c) - 1) : TsKey(c[k]) >= TsKey(c[k + 1])
            /\ \A j, k \in 1..Len(c) :
                (j < k /\ c[j].timestamp = None) => c[k].timestamp = None

\* A sorted cache that holds an item with a timestamp derived from pub_date, and
\* an item without timestamp behind it.
C3_SortedMixed ==
    /\ feed.sort
    /\ cache_json # None
    /\ Len(cache_json[1]) >= 2
    /\ cache_json[1][1].title = "B"
    /\ cache_json[1][Len(cache_json[1])].timestamp = None
    /\ task["r1"].pc = "post"

\* Position of element k of L in the stable descending sort of L.
RankIn(L, k) ==
    1 + Cardinality({j \in 1..Len(L) : TsKey(L[j]) > TsKey(L[k])})
      + Cardinality({j \in 1..(k - 1) : TsKey(L[j]) = TsKey(L[k])})

\* C4: the cache a run writes is the first max_length elements of M, where M is
\* fresh ++ existing (sort = false) or its stable descending sort (sort = true);
\* nothing else is removed, duplicates included.
C4_MergeIsConcatSortTrim ==
    \A t \in Tasks :
        task[t].pc \in {"save_rss", "post"} =>
            LET r == task[t]
                L == MapSeq(DeriveTimestamp, r.fresh) \o r.existing
                n == Min(Len(L), feed.max_length)
            IN  /\ Len(r.items) = n
                /\ cache_json = Some(r.items)
                /\ ~feed.sort => \A k \in 1..n : r.items[k] = L[k]
                /\ feed.sort => \A k \in 1..Len(L) :
                        RankIn(L, k) <= n => r.items[RankIn(L, k)] = L[k]

\* A run has written a cache that holds a fresh item twice: once as extracted now,
\* once as already cached.
C4_DuplicateKept ==
    /\ task["r1"].pc = "post"
    /\ Len(task["r1"].fresh) = 1
    /\ Len(task["r1"].existing) = 1
    /\ Len(task["r1"].items) = 2
    /\ task["r1"].items[1] = task["r1"].items[2]

\* C5: a refresh whose extractor returns no items leaves the item lists of
\* cache.json and cache.xml as they were, and its driver sets last_fetch to the
\* time of the refresh.
C5_EmptyRefreshIsNoOp ==
    [][\A t \in Tasks :
        (Steps(t) /\ task[t].ok /\ task[t].fresh = <<>>) =>
            /\ (task[t].pc = "merge" /\ task[t].items = <<>>)
                    => ItemsOf(cache_json') = ItemsOf(cache_json)
            /\ task[t].pc = "save_rss" => ItemsOf(cache_xml') = ItemsOf(cache_xml)
            /\ task[t].pc = "post" => meta_json'[1].last_fetch = now]_vars

\* C6: in one pipeline run the extractor subprocess is invoked at most
\* max_retries times.
C6_SpawnedAtMostMaxRetries ==
    \A t \in Tasks : task[t].spawned <= master.max_retries

\* C6, amended: in one pipeline run at most max_retries attempts (calls at the
\* origin URL) are made, and the extractor subprocess is invoked at most once per
\* attempt and once more per continuation followed.
C6_AttemptsAtMostMaxRetries ==
    \A t \in Tasks :
        /\ task[t].attempts <= master.max_retries
        /\ task[t].spawned <= task[t].attempts + task[t].followed

\* A run has used all its attempts and has invoked the extractor more than
\* max_retries times.
C6_MoreSpawnsThanRetries ==
    /\ master.max_retries >= 1
    /\ task["r1"].pc = "post"
    /\ task["r1"].attempts = master.max_retries
    /\ task["r1"].spawned > master.max_retries

\* C7: when every attempt of a run fails, exactly max_retries attempts are made,
\* the run still writes the cache (it completes without error), the item list of
\* cache.json is unchanged, and the driver sets last_fetch to now.
C7_AllAttemptsFail ==
    [][\A t \in Tasks :
        (Steps(t) /\ ~task[t].ok /\ task[t].fresh = <<>>) =>
            /\ task[t].pc = "merge" =>
                    /\ task[t].attempts = master.max_retries
                    /\ task'[t].pc = "save_rss"
                    /\ ItemsOf(cache_json') = ItemsOf(cache_json)
            /\ task[t].pc = "post" => meta_json'[1].last_fetch = now]_vars

\* C8: within one attempt, after a reply is appended to the items buffer: when
\* len(items) >= max_length the attempt ends successfully without a further
\* invocation, continuation or not; otherwise a continuation leads to one further
\* call with that URL, the same buffer, the same existing list and the same
\* quota; otherwise the attempt ends successfully. After the attempt has ended
\* successfully the run invokes the extractor no more.
C8_AfterReply ==
    [][\A t \in Tasks :
        LET r == task[t]
            q == task'[t]
        IN  /\ (r.pc = "recurse" /\ Steps(t) /\ q.i = r.i) =>
                /\ q.spawned = r.spawned + 1
                /\ SubSeq(q.items, 1, Len(r.items)) = r.items
                /\ IF Len(q.items) >= feed.max_length
                   THEN q.pc = "merge" /\ q.ok
                   ELSE IF q.res # None
                        THEN /\ q.pc = "recurse"
                             /\ q.url = q.res[1]
                             /\ q.existing = r.existing
                             /\ q.fetch_length = r.fetch_length
                             /\ q.attempts = r.attempts
                        ELSE q.pc = "merge" /\ q.ok
            /\ (r.pc \in {"merge", "save_rss"} /\ Steps(t)) => q.spawned = r.spawned]_vars

\* A run of one attempt and two invocations, the second at the continuation URL
\* of the first reply, has written both replies' items to an empty cache.
C8_TwoHops ==
    /\ task["r1"].pc = "post"
    /\ task["r1"].attempts = 1
    /\ task["r1"].spawned = 2
    /\ task["r1"].followed = 1
    /\ task["r1"].url = "u2"
    /\ task["r1"].existing = <<>>
    /\ Len(task["r1"].fresh) = 2
    /\ task["r1"].fresh[1].title = "C"
    /\ task["r1"].fresh[2].title = "A"
    /\ ~feed.sort
    /\ cache_json = Some(task["r1"].fresh)

\* C9: a scheduler iteration whose idle check finds now - last_requested >
\* idle_limit takes no lock, runs no pipeline, leaves meta.json alone, sleeps
\* interval seconds and then restarts at the sleep-until-due loop.
C9_IdleIterationDoesNothing ==
    [][\A w \in Workers :
        LET r == task[w]
            q == task'[w]
            frame == /\ lock' = lock
                     /\ meta_json' = meta_json
                     /\ cache_json' = cache_json
                     /\ cache_xml' = cache_xml
                     /\ q.spawned = r.spawned
                     /\ ~InPipeline(w)'
        IN  /\ ( /\ r.pc = "idle_check"
                 /\ Steps(w)
                 /\ meta_json # None
                 /\ now - meta_json[1].last_requested > feed.idle_limit ) =>
                    /\ q.pc = "sleep_idle"
                    /\ q.wake = now + feed.interval
                    /\ frame
            /\ (r.pc = "sleep_idle" /\ Steps(w)) =>
                    /\ now >= r.wake
                    /\ q.pc = "due_loop"
                    /\ frame]_vars

\* The worker sleeps after an idle check that found the feed idle.
C9_IdleSleeping ==
    /\ task["w"].pc = "sleep_idle"
    /\ meta_json # None
    /\ now - meta_json[1].last_requested > feed.idle_limit
    /\ task["w"].wake = now + feed.interval

\* C10: after a Read API call has returned Ok having stamped last_requested at
\* time t, no idle check made at a time up to t + idle_limit finds the feed idle.
C10_ReadKeepsFeedAwake ==
    [][\A w \in Workers :
        (task[w].pc = "idle_check" /\ task'[w].pc = "sleep_idle") =>
            ~(lastRead # None /\ now <= lastRead[1] + feed.idle_limit)]_vars

\* C11: a lazy call enters the pipeline exactly when the feed is outdated by the
\* meta.json it loads, a force call always does; a lazy call on a feed that is not
\* outdated invokes no extractor, leaves cache.json, cache.xml and the stored
\* last_fetch as they are and sets the stored last_requested to now.
C11_LazyRefreshesOnlyWhenOutdated ==
    [][\A t \in Readers :
        LET r == task[t]
            q == task'[t]
        IN  /\ (r.pc = "idle" /\ Steps(t) /\ meta_json # None) =>
                    /\ q.kind = "force" => InPipeline(t)'
                    /\ q.kind = "lazy" =>
                            (InPipeline(t)' <=> Outdated(feed, meta_json[1], now))
                    /\ <<meta_json, cache_json, cache_xml>>' = <<meta_json, cache_json, cache_xml>>
            /\ (r.pc = "req_save" /\ Steps(t)) =>
                    /\ r.spawned = 0 /\ q.spawned = 0
                    /\ cache_json' = cache_json
                    /\ cache_xml' = cache_xml
                    /\ meta_json'[1].last_fetch = meta_json[1].last_fetch
                    /\ meta_json'[1].last_requested = now]_vars

\* C12: lazy_fetch (the object form) on a feed that is not outdated, whose
\* cache.json a pipeline run has written, returns Ok with the channel whose items
\* are the item list stored in cache.json.
C12_LazyFetchReturnsCache ==
    [][\A t \in Readers :
        ( /\ task[t].pc = "read_cache"
          /\ task[t].form = "object"
          /\ Steps(t)
          /\ cache_json # None ) =>
                task'[t].ret = Some(Ok("object", cache_json[1]))]_vars

\* C13: a run that finds a cache.json that does not deserialize goes on with an
\* empty existing cache, and the content of the file is never overwritten without
\* having been stored in a cache-<timestamp>.json file.
C13_CorruptCacheSalvaged ==
    [][(cache_json # None /\ DeserializeCache(SerializeCache(cache_json[1])) = None) =>
        /\ \A t \in Tasks :
            (task[t].pc = "idle" /\ Steps(t) /\ InPipeline(t)') => task'[t].existing = <<>>
        /\ cache_json' # cache_json => cache_json[1] \in cache_salvaged']_vars

\* C14: whenever no pipeline run is in progress and both cache files have been
\* written, cache.xml holds the rendering of the items of cache.json, in the same
\* order.
C14_CachesConsistent ==
    (Running = {} /\ cache_json # None /\ cache_xml # None) =>
        cache_xml[1] = MapSeq(ToRssItem, cache_json[1])

\* C15: no write of meta.json decreases the stored last_fetch or the stored
\* last_requested.
C15_MetaNeverRolledBack ==
    [][(meta_json # None /\ meta_json' # None) =>
        /\ meta_json'[1].last_fetch >= meta_json[1].last_fetch
        /\ meta_json'[1].last_requested >= meta_json[1].last_requested]_vars

\* The part of the supervised block that runs under the lock.
LockedPcs == {"locked", "post"} \cup PipelinePcs

\* C16: the label's lock is held only while its holder is between take_lock and
\* the end of its supervised block: whichever way the block ends (completion,
\* pipeline error, panic) the lock is free afterwards, so that the next
\* acquisition is not blocked by an iteration that has ended.
C16_LockReleasedOnExit ==
    lock # None => task[lock[1]].pc \in LockedPcs

\* C17: when an iteration of the supervised block panics, the worker is back at
\* the head of the loop (the sleep-until-due loop of a new iteration), and the
\* entries of the other feeds in the registry are as they were.
C17_PanicRestartsIteration ==
    [][\A w \in Workers :
        (Steps(w) /\ task'[w].ret = Some(Err("panic"))) =>
            /\ task[w].pc = "post"
            /\ task'[w].pc = "due_loop"
            /\ locks'.len = locks.len
            /\ locks'.cap = locks.cap]_vars

\* A worker whose block has panicked under the lock, after a failed pipeline run,
\* is at the head of the loop with the lock free.
C17_PanickedAtLoopHead ==
    /\ task["w"].pc = "due_loop"
    /\ task["w"].ret = Some(Err("panic"))
    /\ lock = None
    /\ meta_json # None
    /\ meta_json[1].last_fetch = 0
    /\ now > 0

\* C18: a step of the task of another label (its take_lock) changes nothing of
\* this label: not its files, not its mutex, not the guard held on its mutex.
C18_LabelsIndependent ==
    [][(locks'.len > locks.len /\ task' = task) =>
        /\ <<meta_json, cache_json, cache_xml>>' = <<meta_json, cache_json, cache_xml>>
        /\ lock' = lock
        /\ locks'.moved = locks.moved]_vars

\* C19: the number of fresh items a run merges into the feed is at most the
\* quota (fetch_length) of the run.
C19_FreshWithinQuota ==
    \A t \in Tasks :
        task[t].pc \in {"save_rss", "post"} => Len(task[t].fresh) <= task[t].fetch_length

\* The quota formula over the integers.
QuotaFormula(f, last_fetch, t) ==
    Min(f.max_length,
        Max(f.fetch_length, ((t - last_fetch + 1) \div f.interval) * f.fetch_length))

\* C20: for interval > 0 and now >= last_fetch the quota of a run equals
\* min(max_length, max(fetch_length, floor((now - last_fetch + 1) / interval) *
\* fetch_length)).
C20_QuotaFormula ==
    \A t \in Readers :
        InPipeline(t) =>
            task[t].fetch_length = QuotaFormula(feed, meta_json[1].last_fetch, now)

\* C21: a driver that finds meta.json missing goes on with the default
\* FetchedMeta: a Read API call does not fail on it (a force call enters the
\* pipeline), and the worker enters the pipeline with the quota of the default.
C21_MissingMetaIsDefault ==
    [][\A t \in Tasks :
        (meta_json = None /\ Steps(t)) =>
            /\ (t \in Readers /\ task[t].pc = "idle") =>
                    /\ task'[t].ret # Some(Err("io"))
                    /\ task'[t].kind = "force" => InPipeline(t)'
            /\ (t \in Workers /\ task[t].pc = "locked") =>
                    /\ InPipeline(t)'
                    /\ task'[t].meta = DefaultMeta(now)]_vars

\* An extractor attempt of task t is under way.
AttemptPcs == {"recurse", "get", "text", "extract"}

\* C22: every extractor attempt eventually ends, whatever the server and the
\* extractor do: a pipeline run of the worker that is in an attempt eventually
\* is over and the lock is free.
C22_HangingRunTerminates ==
    \A w \in Workers : (task[w].pc \in AttemptPcs) ~> (lock = None)

\* C23: started from the same store, configuration, clock and extractor
\* behaviour, fetch_items_return and fetch_items_noreturn make the same extractor
\* invocations, write the same cache.json and cache.xml and fail in the same
\* cases; fetch_items_return returns the list it wrote to cache.json.
C23_EntryPointsEquivalent ==
    LET a == FetchItemsReturn(feed, master.max_retries, meta_json[1], now,
                              cache_json, world.script, world.disk)
        b == FetchItemsNoreturn(feed, master.max_retries, meta_json[1], now,
                                cache_json, world.script, world.disk)
    IN  /\ a.calls = b.calls
        /\ a.json = b.json
        /\ a.xml = b.xml
        /\ a.ret.ok = b.ret.ok
        /\ a.ret.ok => a.ret.body = a.json[1]

\* Both entry points have run to success on a store that holds two items, the
\* later run having made two invocations.
C23_BothHaveRun ==
    /\ task["r1"].ret # None /\ task["r1"].ret[1].ok
    /\ task["r2"].ret # None /\ task["r2"].ret[1].ok
    /\ task["r1"].spawned = 2
    /\ cache_json # None /\ Len(cache_json[1]) = 2
    /\ cache_xml = Some(MapSeq(ToRssItem, cache_json[1]))
    /\ task["r1"].ret[1].body = cache_json[1]

\* Both items have the field (it is Some, whatever the string) and the values
\* are equal.
SameSome(x, y) == x # None /\ y # None /\ x = y

DueIn == LoadMetaOrDefault(meta_json, now).last_fetch + feed.interval - now

\* C25: in the sleep-until-due loop, with d = last_fetch + interval - now from the
\* meta just loaded: when d > 0 the worker sleeps d seconds and re-evaluates; when
\* d <= 0, d = 0 included, it leaves the loop for the idle check.
C25_LeavesLoopWhenNotPositive ==
    [][\A w \in Workers :
        /\ (task[w].pc = "due_loop" /\ Steps(w)) =>
                /\ DueIn > 0 => (task'[w].pc = "sleep_due" /\ task'[w].wake = now + DueIn)
                /\ DueIn <= 0 => task'[w].pc = "idle_check"
        /\ (task[w].pc = "sleep_due" /\ Steps(w)) =>
                (task'[w].pc = "due_loop" /\ now >= task[w].wake)]_vars

\* C26: the preexists argument of every invocation, continuation hops included,
\* is the cache followed by the items collected so far in the attempt, each
\* element with its content cleared.
C26_PreexistsContentCleared ==
    \A t \in Tasks :
        task[t].pc = "recurse" =>
            ItemizerArg(task[t]).preexists =
                MapSeq(ClearContent, task[t].existing \o task[t].items)

RangeOf(s) == { s[k] : k \in 1..Len(s) }

\* C27: when an attempt fails, the items it has collected are dropped and the
\* next attempt, if any, starts at the origin with an empty buffer; a run whose
\* last attempt has failed merges no fresh item: what it writes to cache.json are
\* items of the cache it loaded.
C27_FailedAttemptDiscarded ==
    [][\A t \in Tasks :
        /\ (task[t].pc = "recurse" /\ task'[t].i = task[t].i + 1) =>
                /\ task'[t].items = <<>>
                /\ task'[t].pc = "recurse" => (task'[t].url = "origin" /\ task'[t].hops = 0)
        /\ (task[t].pc = "merge" /\ ~task[t].ok /\ Steps(t)) =>
                /\ task'[t].fresh = <<>>
                /\ cache_json' # None
                /\ RangeOf(cache_json'[1]) \subseteq RangeOf(task[t].existing)]_vars

\* The first hop of an attempt has returned an item and a continuation, the hop
\* at the continuation has failed, and the next attempt is about to start.
C27_RetryAfterFailedHop ==
    /\ task["r1"].pc = "recurse"
    /\ task["r1"].res = Some("u2")
    /\ task["r1"].i = 1
    /\ task["r1"].url = "origin"
    /\ task["r1"].items = <<>>
    /\ task["r1"].followed = 1

\* C28: the hops of one extractor attempt come to an end whatever the extractor
\* replies, replies with a continuation and no items included: a task that is
\* in an attempt eventually is out of the attempts of its run.
C28_ContinuationChainEnds ==
    \A w \in Workers : (task[w].pc \in AttemptPcs) ~> (task[w].pc \notin AttemptPcs)

\* C29: under concurrent use of the registry, the first use included, no
\* take_lock! panics, and the mutex a label's guard was taken on remains the
\* mutex the label is mapped to (the one every later take_lock! acquires).
C29_RegistrySafe ==
    /\ \A w \in Workers : task[w].ret # Some(Err("panic"))
    /\ ~locks.moved

\* C30: when the worker, holding the lock, enters the pipeline, the feed is
\* outdated by the meta.json of that moment: last_fetch + interval < now.
C30_WorkerRunsOnlyWhenOutdated ==
    [][\A w \in Workers :
        (task[w].pc = "locked" /\ InPipeline(w)') =>
            Outdated(feed, LoadMetaOrDefault(meta_json, now), now)]_vars

\* C31: at any moment at most one extractor subprocess started for the label is
\* still running, also after an attempt has ended with FetchFailed and the next
\* attempt has spawned its extractor.
C31_OneExtractorPerLabel == extractors <= 1

====
